---- MODULE Spec2Model ----
(***************************************************************************)
(* Task list web application (routes.py, app.py): five Flask handlers over *)
(* one table of Task rows.  The module holds two specifications:           *)
(*   Spec      every request is handled to completion before the next one  *)
(*   ConcSpec  two workers; a handler that fetches a row (get_or_404) and  *)
(*             later commits takes two steps, so requests interleave       *)
(***************************************************************************)
EXTENDS Integers, Sequences, FiniteSets, TLC

----------------------------------------------------------------------------
(* Bounds and input sets *)

MaxId == 2        \* ids the store hands out in Spec
MaxConcId == 1    \* ids the store hands out in ConcSpec
MaxFlash == 1     \* flashed messages waiting in the session

Workers == {1, 2}

NoId == 0
TaskIds == 1..MaxId

----------------------------------------------------------------------------
(* Requests *)

\* A form as the handlers read it: request.form['title'],
\* request.form['description'], 'completed' in request.form.
Forms ==
    {[title |-> "a", description |-> "x", completed |-> FALSE],
     [title |-> "a", description |-> "y", completed |-> TRUE],
     [title |-> "", description |-> "x", completed |-> TRUE],
     [title |-> "", description |-> "y", completed |-> FALSE]}
NoForm == [title |-> "", description |-> "x", completed |-> FALSE]

\* A URL is "/" , "/task/new" or "/task/<id>/<tail>".
Path(prefix, id, tail) == [prefix |-> prefix, id |-> id, tail |-> tail]
RootPath == Path("/", NoId, "")
NewPath == Path("/task/new", NoId, "")
TaskPath(id, tail) == Path("/task/", id, tail)
Tails == {"edit", "delete", "toogle", "toggle"}
Paths == {RootPath, NewPath} \cup {TaskPath(i, t) : i \in TaskIds, t \in Tails}
NoPath == Path("", NoId, "")

Request(method, path, form) == [method |-> method, path |-> path, form |-> form]
NoReq == Request("", NoPath, NoForm)

\* The handlers that read the form are new_task and edit_task, on POST.
ReadsForm(path) == path = NewPath \/ (path.prefix = "/task/" /\ path.tail = "edit")
Requests ==
    {Request("GET", p, NoForm) : p \in Paths}
    \cup {Request("POST", p, NoForm) : p \in {q \in Paths : ~ReadsForm(q)}}
    \cup {Request("POST", p, f) : p \in {q \in Paths : ReadsForm(q)}, f \in Forms}

----------------------------------------------------------------------------
(* Routing: the rules registered by the @main.route decorators *)

Endpoint(path) ==
    IF path = RootPath THEN "index"
    ELSE IF path = NewPath THEN "new_task"
    ELSE IF path.prefix = "/task/" /\ path.tail = "edit" THEN "edit_task"
    ELSE IF path.prefix = "/task/" /\ path.tail = "delete" THEN "delete_task"
    ELSE IF path.prefix = "/task/" /\ path.tail = "toogle" THEN "toogle_task"
    ELSE "none"

AllowedMethods(endpoint) ==
    CASE endpoint = "index" -> {"GET"}
      [] endpoint = "new_task" -> {"GET", "POST"}
      [] endpoint = "edit_task" -> {"GET", "POST"}
      [] endpoint = "delete_task" -> {"POST"}
      [] endpoint = "toogle_task" -> {"POST"}
      [] OTHER -> {}

\* The endpoint a request is dispatched to: "404" when no rule matches the
\* URL, "405" when a rule matches but not for this method.
Route(r) ==
    LET e == Endpoint(r.path)
    IN IF e = "none" THEN "404"
       ELSE IF r.method \notin AllowedMethods(e) THEN "405"
       ELSE e

url_for(endpoint) ==
    IF endpoint = "main.index" THEN RootPath ELSE NewPath

----------------------------------------------------------------------------
(* Responses *)

Response(status, location, template, context, messages) ==
    [status |-> status, location |-> location, template |-> template,
     context |-> context, messages |-> messages]
NoResp == Response(0, NoPath, "", {}, <<>>)

redirect(location) == Response(302, location, "", {}, <<>>)
render_template(template, context, messages) ==
    Response(200, NoPath, template, context, messages)
abort(status) == Response(status, NoPath, "", {}, <<>>)

\* The creation form shows the flashed messages, which takes them out of
\* the session.
create_task_html(pending) == [shown |-> pending, left |-> <<>>]

----------------------------------------------------------------------------
(* The Task table *)

Row(id, title, description, completed) ==
    [id |-> id, title |-> title, description |-> description,
     completed |-> completed]
NoTask == Row(NoId, "", "x", FALSE)

Ids(store) == {t.id : t \in store}

\* The stored row of an id that is in the store
get(store, id) == CHOOSE t \in store : t.id = id

\* Task.query.get_or_404(id): the row, or NoTask when the lookup aborts
\* the request with 404
get_or_first(store, id) ==
    IF id \in Ids(store) THEN get(store, id)
    ELSE IF store # {} THEN CHOOSE t \in store : TRUE
    ELSE NoTask
get_or_404(store, id) ==
    IF id \in Ids(store) THEN get(store, id) ELSE NoTask

\* Task(title=..., description=...): completed takes the column default
Task(title, description) == Row(NoId, title, description, FALSE)

\* The primary key of the next inserted row, from the store's id generator
\* (last: the last id handed out) and its rows.
NextIdAboveStored(store, last) ==
    IF store = {} THEN 1
    ELSE (CHOOSE m \in Ids(store) : \A i \in Ids(store) : i <= m) + 1
NextId(store, last) == last + 1

\* db.session.add(task); db.session.commit(): INSERT with the new key
addUncommitted(store, task, id) == store
add(store, task, id) == store \cup {[task EXCEPT !.id = id]}

\* db.session.delete(task); db.session.commit(): DELETE ... WHERE id = task.id
deleteUncommitted(store, task) == store
delete(store, task) == {t \in store : t.id # task.id}

\* db.session.commit() for a row the session loaded and the handler then
\* assigned to: the unit of work emits UPDATE ... WHERE id = loaded.id that
\* sets the columns whose value differs from the loaded one; the other
\* columns of the stored row are not written.
Flush(store, loaded, current) ==
    LET stored == get(store, loaded.id)
        written == [stored EXCEPT
            !.title = IF current.title # loaded.title
                      THEN current.title ELSE @,
            !.description = IF current.description # loaded.description
                            THEN current.description ELSE @,
            !.completed = IF current.completed # loaded.completed
                          THEN current.completed ELSE @]
    IN (store \ {stored}) \cup {written}

\* `if not title`
TitleAlwaysGiven(title) == FALSE
TitleMissing(title) == title = ""

\* The assignments of edit_task to the loaded row
EditKeepingCompleted(task, form) ==
    [task EXCEPT !.title = form.title,
                 !.description = form.description]
EditKeepingEmptyTitle(task, form) ==
    [task EXCEPT !.title = IF form.title = "" THEN @ ELSE form.title,
                 !.description = form.description,
                 !.completed = form.completed]
EditAssign(task, form) ==
    [task EXCEPT !.title = form.title,
                 !.description = form.description,
                 !.completed = form.completed]

\* The assignment of toogle_task to the loaded row
ToogleSetsCompleted(task) == [task EXCEPT !.completed = TRUE]
ToogleAssign(task) == [task EXCEPT !.completed = ~task.completed]

----------------------------------------------------------------------------
(* State *)

VARIABLES
    tasks,      \* the rows of the Task table
    lastId,     \* the store's id generator: the last id handed out
    flashes,    \* messages flashed into the session and not yet shown
    req,        \* the request handled last
    resp,       \* the response to it
    fetched,    \* the row that request's get_or_404 returned, if any
    sess,       \* ConcSpec: per worker, the request in progress and its row
    deleted,    \* history: every id whose task was deleted
    togRun      \* history: per id, the toggles since another write to it

vars == <<tasks, lastId, flashes, req, resp, fetched, sess, deleted, togRun>>

Idle == [pc |-> "idle", req |-> NoReq, task |-> NoTask, racedBy |-> ""]
NoRun == [n |-> 0, orig |-> NoTask]

Init ==
    /\ tasks = {}
    /\ lastId = 0
    /\ flashes = <<>>
    /\ req = NoReq
    /\ resp = NoResp
    /\ fetched = NoTask
    /\ sess = [w \in Workers |-> Idle]
    /\ deleted = {}
    /\ togRun = [i \in TaskIds |-> NoRun]

\* history of the toggles of an id: orig is the row before the first of
\* them, n how many were handled with no edit or delete of the id between
Toggled(run, id, before) ==
    [run EXCEPT ![id] = IF @.n = 1 THEN [@ EXCEPT !.n = 2]
                        ELSE [n |-> 1, orig |-> before]]
Written(run, id) == [run EXCEPT ![id] = NoRun]

----------------------------------------------------------------------------
(* Handlers, each request handled to completion *)

index(r) ==
    /\ Route(r) = "index"
    /\ resp' = render_template("index.html", tasks, <<>>)
    /\ UNCHANGED <<tasks, lastId, flashes, deleted>>

\* the store hands out at most cap ids
CanCreate(r, cap) ==
    (r.method = "POST" /\ ~TitleMissing(r.form.title))
        => NextId(tasks, lastId) <= cap

new_task(r) ==
    /\ Route(r) = "new_task"
    /\ IF r.method = "POST"
       THEN IF TitleMissing(r.form.title)
            THEN /\ Len(flashes) < MaxFlash
                 /\ flashes' = Append(flashes, "Title is required")
                 /\ resp' = redirect(url_for("main.new_task"))
                 /\ UNCHANGED <<tasks, lastId>>
            ELSE LET id == NextId(tasks, lastId)
                     task == Task(r.form.title, r.form.description)
                 IN /\ tasks' = add(tasks, task, id)
                    /\ lastId' = id
                    /\ resp' = redirect(url_for("main.index"))
                    /\ UNCHANGED flashes
       ELSE /\ resp' = render_template("create_task.html", {},
                                       create_task_html(flashes).shown)
            /\ flashes' = create_task_html(flashes).left
            /\ UNCHANGED <<tasks, lastId>>
    /\ UNCHANGED deleted

edit_task(r) ==
    /\ Route(r) = "edit_task"
    /\ LET task == get_or_404(tasks, r.path.id)
       IN IF task = NoTask
          THEN /\ resp' = abort(404)
               /\ UNCHANGED tasks
          ELSE IF r.method = "POST"
          THEN /\ tasks' = Flush(tasks, task, EditAssign(task, r.form))
               /\ resp' = redirect(url_for("main.index"))
          ELSE /\ resp' = render_template("edit_task.html", {task}, <<>>)
               /\ UNCHANGED tasks
    /\ UNCHANGED <<lastId, flashes, deleted>>

delete_task(r) ==
    /\ Route(r) = "delete_task"
    /\ LET task == get_or_404(tasks, r.path.id)
       IN IF task = NoTask
          THEN /\ resp' = abort(404)
               /\ UNCHANGED <<tasks, deleted>>
          ELSE /\ tasks' = delete(tasks, task)
               /\ deleted' = deleted \cup {task.id}
               /\ resp' = redirect(url_for("main.index"))
    /\ UNCHANGED <<lastId, flashes>>

toogle_task(r) ==
    /\ Route(r) = "toogle_task"
    /\ LET task == get_or_404(tasks, r.path.id)
       IN IF task = NoTask
          THEN /\ resp' = abort(404)
               /\ UNCHANGED tasks
          ELSE /\ tasks' = Flush(tasks, task, ToogleAssign(task))
               /\ resp' = redirect(url_for("main.index"))
    /\ UNCHANGED <<lastId, flashes, deleted>>

\* No rule of the blueprint serves the request: the framework answers.
NoRoute(r) ==
    /\ Route(r) \in {"404", "405"}
    /\ resp' = abort(IF Route(r) = "404" THEN 404 ELSE 405)
    /\ UNCHANGED <<tasks, lastId, flashes, deleted>>

\* history of the request handled
Fetched(r) ==
    IF Route(r) \in {"edit_task", "delete_task", "toogle_task"}
    THEN get_or_404(tasks, r.path.id) ELSE NoTask
Keep(r) == req' = r /\ fetched' = Fetched(r)

Untracked(r) == Keep(r) /\ UNCHANGED <<sess, togRun>>

Next ==
    \E r \in Requests :
        \/ index(r) /\ Untracked(r)
        \/ CanCreate(r, MaxId) /\ new_task(r) /\ Untracked(r)
        \/ edit_task(r) /\ Untracked(r)
        \/ delete_task(r) /\ Untracked(r)
        \/ toogle_task(r) /\ Untracked(r)
        \/ NoRoute(r) /\ Untracked(r)

Spec == Init /\ [][Next]_vars

\* The requests that read or write the store (none flashes a message, none
\* is refused for its method), with the history of toggles kept
StoreRequests ==
    {r \in Requests :
        /\ Route(r) # "405"
        /\ r.path = NewPath => r.method = "POST" /\ r.form.title # ""}

TrackToggles(r) ==
    IF resp'.status = 302 /\ fetched' # NoTask
    THEN IF Route(r) = "toogle_task"
         THEN togRun' = Toggled(togRun, fetched'.id, fetched')
         ELSE togRun' = Written(togRun, fetched'.id)
    ELSE UNCHANGED togRun

Tracked(r) == Keep(r) /\ TrackToggles(r) /\ UNCHANGED sess

ToggleNext ==
    \E r \in StoreRequests :
        \/ index(r) /\ Tracked(r)
        \/ CanCreate(r, MaxId) /\ new_task(r) /\ Tracked(r)
        \/ edit_task(r) /\ Tracked(r)
        \/ delete_task(r) /\ Tracked(r)
        \/ toogle_task(r) /\ Tracked(r)
        \/ NoRoute(r) /\ Tracked(r)

ToggleSpec == Init /\ [][ToggleNext]_vars

----------------------------------------------------------------------------
(* Two workers: a handler that fetches a row commits in a later step *)

\* The UPDATE of a commit finds no row to write: the commit raises and the
\* request ends in a server error.
StaleWhenChanged(store, loaded) == loaded \notin store
Stale(store, loaded) == loaded.id \notin Ids(store)

\* history: the commit of worker w raced every other worker that holds a
\* fetched copy of the same row; a worker that was raced keeps its record
\* after its own commit ("done") until it takes the next request
Raced(s, w, r, task) ==
    [v \in Workers |->
        IF v = w THEN (IF s[w].racedBy = "" THEN Idle
                       ELSE [s[w] EXCEPT !.pc = "done"])
        ELSE IF s[v].pc = "fetched" /\ s[v].task.id = task.id
        THEN [s[v] EXCEPT !.racedBy = Route(r)]
        ELSE s[v]]

ConcRequests == {r \in StoreRequests : r.path.id <= MaxConcId}

\* index, new_task and unrouted requests fetch no row: one step
Serve(r) ==
    \/ index(r) /\ UNCHANGED <<req, fetched, sess, togRun>>
    \/ CanCreate(r, MaxConcId) /\ new_task(r)
          /\ UNCHANGED <<req, fetched, sess, togRun>>
    \/ NoRoute(r) /\ UNCHANGED <<req, fetched, sess, togRun>>

\* edit_task, delete_task, toogle_task up to get_or_404; the 404 and the
\* GET of edit_task answer at once
Fetch(w, r) ==
    /\ sess[w].pc \in {"idle", "done"}
    /\ Route(r) \in {"edit_task", "delete_task", "toogle_task"}
    /\ LET task == get_or_404(tasks, r.path.id)
       IN IF task = NoTask
          THEN /\ resp' = abort(404)
               /\ UNCHANGED sess
          ELSE IF r.method = "GET"
          THEN /\ resp' = render_template("edit_task.html", {task}, <<>>)
               /\ UNCHANGED sess
          ELSE /\ sess' = [sess EXCEPT ![w] =
                              [Idle EXCEPT !.pc = "fetched", !.req = r,
                                           !.task = task]]
               /\ UNCHANGED resp
    /\ UNCHANGED <<tasks, lastId, flashes, req, fetched, deleted, togRun>>

\* the rest of the handler: the assignments, the commit, the redirect
Commit(w) ==
    /\ sess[w].pc = "fetched"
    /\ LET r == sess[w].req
           task == sess[w].task
       IN IF Route(r) = "delete_task"
          THEN /\ tasks' = delete(tasks, task)
               /\ deleted' = deleted \cup {task.id}
               /\ resp' = redirect(url_for("main.index"))
               /\ sess' = Raced(sess, w, r, task)
          ELSE IF Stale(tasks, task)
          THEN /\ resp' = abort(500)
               /\ sess' = [sess EXCEPT ![w] = Idle]
               /\ UNCHANGED <<tasks, deleted>>
          ELSE /\ tasks' = Flush(tasks, task,
                                 IF Route(r) = "edit_task"
                                 THEN EditAssign(task, r.form)
                                 ELSE ToogleAssign(task))
               /\ resp' = redirect(url_for("main.index"))
               /\ sess' = Raced(sess, w, r, task)
               /\ UNCHANGED deleted
    /\ UNCHANGED <<lastId, flashes, req, fetched, togRun>>

ConcNext ==
    \/ \E r \in ConcRequests : Serve(r)
    \/ \E w \in Workers, r \in ConcRequests : Fetch(w, r)
    \/ \E w \in Workers : Commit(w)

ConcSpec == Init /\ [][ConcNext]_vars

----------------------------------------------------------------------------
(* Properties *)

TitleRequired == "Title is required"
PostsNew(r) == r.method = "POST" /\ r.path = NewPath
PostsTo(r, tail) ==
    r.method = "POST" /\ r.path.prefix = "/task/" /\ r.path.tail = tail
\* a request to edit (GET or POST), delete or toggle a task
TargetsTask(r) ==
    /\ r.path.prefix = "/task/"
    /\ \/ r.path.tail = "edit"
       \/ r.method = "POST" /\ r.path.tail \in {"delete", "toogle", "toggle"}

\* C1, as claimed: POST /task/new with an empty title leaves the set of
\* stored tasks as it was and answers 200 with the creation form and the
\* message, not a redirect.
C1_FormRedisplayed ==
    [][PostsNew(req') /\ req'.form.title = ""
       => /\ tasks' = tasks
          /\ resp'.status = 200
          /\ resp'.template = "create_task.html"
          /\ \E i \in DOMAIN resp'.messages : resp'.messages[i] = TitleRequired
      ]_vars

\* C1, amended: POST /task/new with an empty title leaves the set of stored
\* tasks and the id generator as they were, flashes "Title is required" into
\* the session and answers with a redirect (302) to /task/new.
C1_EmptyTitleRedirects ==
    [][PostsNew(req') /\ req'.form.title = ""
       => /\ tasks' = tasks
          /\ lastId' = lastId
          /\ flashes' = Append(flashes, TitleRequired)
          /\ resp' = redirect(NewPath)
      ]_vars

C1_Witness ==
    /\ PostsNew(req) /\ req.form.title = ""
    /\ resp.status = 302
    /\ tasks # {}
    /\ flashes # <<>>

\* C2, as claimed: POST /task/{id}/toggle on a stored id flips the task's
\* completed flag, keeps its title and description and redirects to the list.
C2_TogglePathFlips ==
    [][PostsTo(req', "toggle") /\ req'.path.id \in Ids(tasks)
       => /\ req'.path.id \in Ids(tasks')
          /\ LET old == get(tasks, req'.path.id)
             IN get(tasks', req'.path.id) = [old EXCEPT !.completed = ~@]
          /\ resp' = redirect(RootPath)
      ]_vars

C4_AbsentIdNotFound ==
    [][TargetsTask(req') /\ req'.path.id \notin Ids(tasks)
       => /\ resp'.status = 404
          /\ tasks' = tasks
          /\ lastId' = lastId
      ]_vars

C4_Witness ==
    /\ PostsTo(req, "delete")
    /\ req.path.id \notin Ids(tasks) \cup deleted
    /\ resp.status = 404
    /\ tasks # {}

\* C5: POST /task/new with a non-empty title adds exactly one task, with the
\* submitted title and description, completed = FALSE and an id no stored
\* task had, keeps every other task and redirects to the list; GET / returns
\* all stored tasks.
C5_CreateAddsOne ==
    [][/\ PostsNew(req') /\ req'.form.title # ""
          => /\ \E t \in tasks' :
                   /\ t \notin tasks
                   /\ t.id \notin Ids(tasks)
                   /\ tasks' = tasks \cup {t}
                   /\ t.title = req'.form.title
                   /\ t.description = req'.form.description
                   /\ t.completed = FALSE
             /\ resp' = redirect(RootPath)
       /\ req'.method = "GET" /\ req'.path = RootPath
          => /\ resp'.status = 200
             /\ resp'.context = tasks'
             /\ tasks' = tasks
      ]_vars

C5_Witness ==
    /\ PostsNew(req) /\ req.form.title # ""
    /\ resp = redirect(RootPath)
    /\ Cardinality(tasks) >= 2
    /\ \E t \in tasks :
          /\ t.id = lastId
          /\ t.title = req.form.title
          /\ t.description = "y"

C7_EditOverwrites ==
    [][PostsTo(req', "edit") /\ req'.path.id \in Ids(tasks)
       => /\ tasks' = (tasks \ {get(tasks, req'.path.id)})
                      \cup {Row(req'.path.id, req'.form.title,
                                req'.form.description, req'.form.completed)}
          /\ resp' = redirect(RootPath)
      ]_vars

C7_Witness ==
    /\ PostsTo(req, "edit") /\ resp.status = 302
    /\ fetched.completed /\ ~req.form.completed
    /\ req.path.id \in Ids(tasks)
    /\ ~get(tasks, req.path.id).completed

\* C8: after two toggles of an id with no edit or delete of it in between,
\* the task is stored as it was before the first of them.
C8_ToggleTwiceRestores ==
    \A i \in TaskIds :
        togRun[i].n = 2 => i \in Ids(tasks) /\ get(tasks, i) = togRun[i].orig

C8_Witness ==
    \E i \in TaskIds :
        /\ togRun[i].n = 2
        /\ togRun[i].orig.completed
        /\ req.method = "POST" /\ req.path.id # i /\ resp.status = 302

\* C10: POST /task/{id}/edit with an empty title on a stored id stores the
\* empty title and redirects to the list, while every task enters the store
\* with a non-empty title.
C10_EmptyTitleOnlyOnEdit ==
    [][/\ PostsTo(req', "edit") /\ req'.form.title = ""
          /\ req'.path.id \in Ids(tasks)
          => /\ req'.path.id \in Ids(tasks')
             /\ get(tasks', req'.path.id).title = ""
             /\ resp' = redirect(RootPath)
       /\ \A t \in tasks' : t.id \notin Ids(tasks) => t.title # ""
      ]_vars

C10_Witness ==
    /\ PostsTo(req, "edit") /\ req.form.title = ""
    /\ resp = redirect(RootPath)
    /\ \E t \in tasks : t.id = req.path.id /\ t.title = "" /\ fetched.title # ""

\* ConcSpec: worker w commits a toggle or an edit after another toggle or
\* edit of the same row committed between w's fetch and this commit
CommitsLast(w) ==
    /\ sess[w].pc = "fetched" /\ sess'[w].pc # "fetched"
    /\ Route(sess[w].req) \in {"edit_task", "toogle_task"}
    /\ sess[w].racedBy \in {"edit_task", "toogle_task"}

\* C9, as claimed: of two concurrent toggle or edit requests on one id the
\* one that commits last is not rejected, and the stored task then holds the
\* fields it computed: title, description and completed of the form for an
\* edit, the negation of the completed value it read for a toggle.
C9_LastWriterFields ==
    [][\A w \in Workers : CommitsLast(w)
        => LET r == sess[w].req
               id == sess[w].task.id
           IN /\ resp' = redirect(RootPath)
              /\ id \in Ids(tasks')
              /\ IF Route(r) = "edit_task"
                 THEN get(tasks', id) = Row(id, r.form.title,
                                            r.form.description,
                                            r.form.completed)
                 ELSE get(tasks', id).completed = ~sess[w].task.completed
      ]_vars

\* C9, amended: the request that commits last is not rejected; each field to
\* which it assigned a value different from the one it had read holds that
\* value, every other field keeps what the earlier commit stored; two
\* toggles that read the same completed value leave it flipped once.
C9_LastWriterChangedFields ==
    [][\A w \in Workers : CommitsLast(w)
        => LET r == sess[w].req
               read == sess[w].task
               id == read.id
               edit == Route(r) = "edit_task"
               title == IF edit THEN r.form.title ELSE read.title
               description == IF edit THEN r.form.description
                              ELSE read.description
               completed == IF edit THEN r.form.completed ELSE ~read.completed
           IN /\ resp' = redirect(RootPath)
              /\ id \in Ids(tasks) /\ id \in Ids(tasks')
              /\ LET old == get(tasks, id)
                     new == get(tasks', id)
                 IN /\ new.title =
                          IF title # read.title THEN title ELSE old.title
                    /\ new.description =
                          IF description # read.description THEN description
                          ELSE old.description
                    /\ new.completed =
                          IF completed # read.completed THEN completed
                          ELSE old.completed
                    /\ (/\ ~edit /\ sess[w].racedBy = "toogle_task"
                        /\ old.completed # read.completed)
                       => new.completed = old.completed
              /\ tasks' \ {get(tasks', id)} = tasks \ {get(tasks, id)}
      ]_vars

\* both toggles read completed = FALSE, both have committed, the task is
\* stored completed
C9_Witness ==
    \E w \in Workers :
        /\ sess[w].pc = "done"
        /\ Route(sess[w].req) = "toogle_task"
        /\ sess[w].racedBy = "toogle_task"
        /\ ~sess[w].task.completed
        /\ \A v \in Workers : sess[v].pc # "fetched"
        /\ resp = redirect(RootPath)
        /\ \E t \in tasks : t.id = sess[w].task.id /\ t.completed

====
